---- MODULE Spec2Model ----
(***************************************************************************)
(* A model of arxiv_prep (src/main2.py): the Copier that walks a LaTeX     *)
(* source tree from its root document, registers \newcommand definitions,  *)
(* expands them on every line, resolves the include directives of the      *)
(* expanded line and copies the files they name.                           *)
(*                                                                         *)
(* Text is a sequence of atoms.  An atom is a TLA+ string that stands for  *)
(* the characters it spells: every non-word character is an atom of its    *)
(* own ("\\", "{", "}", "[", "]", "%", "#", ".", "/", " ", "\n"), and a     *)
(* maximal run of letters (a keyword such as "input", a name) is one atom, *)
(* as is every digit.  A regular expression of the source is modelled by  *)
(* an operator that computes the match Python's re computes (leftmost      *)
(* start, greedy "?" before skip, shortest ".*?" first, "." never matching *)
(* a newline) on such texts.                                               *)
(***************************************************************************)
EXTENDS Integers, Sequences, FiniteSets, TLC

\* ------------------------------------------------------------------ atoms
BS == "\\"
NL == "\n"
NonWord == {"\\", "{", "}", "[", "]", "%", "#", ".", "/", " ", "\n", ",", "*"}
Whitespace == {" ", "\n"}
Digits == {"0", "1", "2", "3"}
IsWord(a) == a \notin NonWord

DigitVal(a) == CASE a = "0" -> 0 [] a = "1" -> 1 [] a = "2" -> 2 [] OTHER -> 3

\* s[i..] and s[..i], Python's s[i-1:] and s[:i]
From(s, i) == SubSeq(s, i, Len(s))
Upto(s, i) == SubSeq(s, 1, i)

\* pat occurs in s at index i
At(s, i, pat) ==
    /\ i >= 1
    /\ i + Len(pat) - 1 <= Len(s)
    /\ \A k \in 1..Len(pat) : s[i + k - 1] = pat[k]

\* Python's `pat in s`
Contains(s, pat) == \E i \in 1..Len(s) : At(s, i, pat)

Min(S) == CHOOSE x \in S : \A y \in S : x <= y
Max(S) == CHOOSE x \in S : \A y \in S : x >= y

\* str.rstrip(): the text without its trailing whitespace
RStrip(s) ==
    LET keep == {i \in 1..Len(s) : s[i] \notin Whitespace}
    IN  IF keep = {} THEN <<>> ELSE Upto(s, Max(keep))

\* str.lstrip(): the text without its leading whitespace
LStrip(s) ==
    LET keep == {i \in 1..Len(s) : s[i] \notin Whitespace}
    IN  IF keep = {} THEN <<>> ELSE From(s, Min(keep))

\* ------------------------------------------------------- comment stripper
_END_DOCUMENT_MARKER == <<"\\", "end", "{", "document", "}">>

\* the leftmost "%" after the first character, escaped or not
_get_leftmost_comment_ignoring_escapes(l) ==
    LET hits == {i \in 2..Len(l) : l[i] = "%"}
    IN  IF hits = {} THEN 0 ELSE Min(hits)

\* a stripper that cuts a layout line at its first marker like any other line
StripCases_cutting_layout_lines(l, l_prev, lstripped, rstripped, leftmost) ==
    IF lstripped # <<>> /\ lstripped[1] = "%"
    THEN IF l_prev = <<"%", NL>> \/ l_prev = <<NL>> THEN <<>> ELSE <<"%", NL>>
    ELSE IF leftmost = 0 THEN l
    ELSE RStrip(Upto(l, leftmost - 1)) \o <<NL>>

\* _get_leftmost_comment: the least (0-based) index i >= 1 of a "%" that no
\* backslash precedes, or None (`if not leftmost` treats 0 and None alike).
\* Here: the index of that "%" in the text, 0 when there is none.
_get_leftmost_comment(l) ==
    LET hits == {i \in 2..Len(l) : l[i] = "%" /\ l[i - 1] # BS}
    IN  IF hits = {} THEN 0 ELSE Min(hits)

\* Python's None for a line or a path (neither is ever the empty text)
None == <<>>

\* a stripper that writes a marker line for every comment-only line
StripCases_marking_every_comment(l, l_prev, lstripped, rstripped, leftmost) ==
    IF lstripped # <<>> /\ lstripped[1] = "%" THEN <<"%", NL>>
    ELSE IF rstripped # <<>> /\ rstripped[Len(rstripped)] = "%" THEN l
    ELSE IF leftmost = 0 THEN l
    ELSE RStrip(Upto(l, leftmost - 1)) \o <<NL>>

\* the three cases of strip_comments_from_line, main2.py:483-497, on
\* l.lstrip(), l.rstrip() and _get_leftmost_comment(l)
StripCases(l, l_prev, lstripped, rstripped, leftmost) ==
    IF lstripped # <<>> /\ lstripped[1] = "%"
    THEN IF l_prev = <<"%", NL>> \/ l_prev = <<NL>> THEN None ELSE <<"%", NL>>
    ELSE IF rstripped # <<>> /\ rstripped[Len(rstripped)] = "%"
    THEN l
    ELSE IF leftmost = 0 THEN l
    ELSE RStrip(Upto(l, leftmost - 1)) \o <<NL>>

\* strip_comments_from_line(l, l_prev)
strip_comments_from_line(l, l_prev) ==
    StripCases(l, l_prev, LStrip(l), RStrip(l), _get_leftmost_comment(l))

\* ------------------------------------------------------- bracket balancer
\* `if num_lines > 100` of _consume_until_closing_bracket
MaxLookahead == 100

\* the brace depth after the first i atoms of line, from depth d
DepthAfter(line, d, i) ==
    d + Cardinality({j \in 1..i : line[j] = "{"})
      - Cardinality({j \in 1..i : line[j] = "}"})

ConsumeError(e, pos) ==
    [err |-> e, command |-> <<>>, remaining |-> <<>>, pos |-> pos]

\* _iter_lines(first_line, f_iter), f_iter being at line pos of file, each
\* line stripped of comments (main2.py:183, 186): cur and the lines of file
\* from pos on
StrippedLines(cur, file, pos) ==
    [k \in 1..(IF pos > Len(file) THEN 1 ELSE Len(file) - pos + 2) |->
        strip_comments_from_line(IF k = 1 THEN cur ELSE file[pos + k - 2], None)]

\* where the atom c stands in the first k of the lines ls
Occurrences(ls, k, c) ==
    UNION {{<<j, i>> : i \in {n \in 1..Len(ls[j]) : ls[j][n] = c}} : j \in 1..k}

\* num_brackets after the first k of the lines ls
BracketsAfter(ls, num_brackets, k) ==
    num_brackets + Cardinality(Occurrences(ls, k, "{"))
                 - Cardinality(Occurrences(ls, k, "}"))

\* consummed after the lines ls[a..b]
RECURSIVE JoinLines(_, _, _)
JoinLines(ls, a, b) ==
    IF a > b THEN <<>>
    ELSE IF a = b THEN ls[a]
    ELSE JoinLines(ls, a, (a + b) \div 2) \o JoinLines(ls, (a + b) \div 2 + 1, b)

\* the lines of ls at which the loop ends, the first of them being the
\* num_lines-th line of the loop: a line beyond the limit, a line on which the
\* depth returns to zero, and the last line there is
ConsumeStops(ls, num_lines, num_brackets, limit) ==
    {k \in 1..Len(ls) :
        \/ num_lines + k - 1 > limit
        \/ \E i \in 1..Len(ls[k]) :
              DepthAfter(ls[k], BracketsAfter(ls, num_brackets, k - 1), i) = 0
        \/ k = Len(ls)}

\* main2.py:187-197 on the stripped line: the atoms up to the brace that
\* returns the depth to zero and the rest of the line, or the exception raised
\* when the lines end before that brace
ConsumeLine(line, num_brackets, consummed, pos) ==
    LET closes == {i \in 1..Len(line) : DepthAfter(line, num_brackets, i) = 0}
    IN  IF closes # {}
        THEN [err |-> "none",
              command |-> Tail(consummed \o Upto(line, Min(closes) - 1)),
              remaining |-> From(line, Min(closes) + 1),
              pos |-> pos]
        ELSE ConsumeError("ValueError", pos)

\* the loop ends at the k-th of the lines ls
ConsumeAt(ls, num_lines, num_brackets, consummed, pos, limit, k) ==
    IF num_lines + k - 1 > limit THEN ConsumeError("ValueError", pos + k - 1)
    ELSE ConsumeLine(ls[k], BracketsAfter(ls, num_brackets, k - 1),
                     consummed \o JoinLines(ls, 1, k - 1), pos + k - 1)

\* The loop of _consume_until_closing_bracket over the lines ls, of which it
\* reads no more than limit after the first: the pair the function returns and
\* the position the iterator is left at, or the exception raised.
ConsumeLimited(ls, num_lines, num_brackets, consummed, pos, limit) ==
    ConsumeAt(ls, num_lines, num_brackets, consummed, pos, limit,
              Min(ConsumeStops(ls, num_lines, num_brackets, limit)))

\* a balancer that reads on, however many lines it has read
ConsumeLines_scanning_on(cur, num_lines, num_brackets, consummed, file, pos) ==
    ConsumeLimited(StrippedLines(cur, file, pos), num_lines, num_brackets,
                   consummed, pos, num_lines + Len(file) + 1)

\* The loop of _consume_until_closing_bracket from its num_lines-th line cur:
\* file and pos are the iterator f_iter (the lines of the file being parsed and
\* the index of the next line it yields).
ConsumeLines(cur, num_lines, num_brackets, consummed, file, pos) ==
    ConsumeLimited(StrippedLines(cur, file, pos), num_lines, num_brackets,
                   consummed, pos, MaxLookahead)

\* _consume_until_closing_bracket(first_line, f_iter)
_consume_until_closing_bracket(first_line, file, pos) ==
    IF first_line[1] # "{" \/ first_line[Len(first_line)] # NL
    THEN ConsumeError("AssertionError", pos)
    ELSE ConsumeLines(first_line, 0, 0, <<>>, file, pos)

\* ------------------------------------------------- the definition matcher
\* _RE_NEWCOMMAND = \\(re)?newcommand\*?{?(.*?)}?(\[(\d+)\])?{

\* (\[(\d+)\])?{ at q with the group taken: the index of the closing "{", or 0
NumEnd(l, q) ==
    IF q <= Len(l) /\ l[q] = "["
    THEN LET run == {d \in (q + 1)..Len(l) :
                        \A k \in (q + 1)..d : l[k] \in Digits}
         IN  IF run = {} THEN 0
             ELSE IF /\ Max(run) + 2 <= Len(l)
                     /\ l[Max(run) + 1] = "]"
                     /\ l[Max(run) + 2] = "{"
             THEN Max(run) + 2 ELSE 0
    ELSE 0

\* the decimal value of the digits l[a..b]
RECURSIVE DecimalValue(_, _, _)
DecimalValue(l, a, b) ==
    IF b < a THEN 0 ELSE 10 * DecimalValue(l, a, b - 1) + DigitVal(l[b])

\* (\[(\d+)\])?{ at q, the group ending at num_end when it can be taken: the
\* group is tried before it is skipped
NumTailOf(l, q, num_end) ==
    IF num_end # 0
    THEN [ok |-> TRUE, end |-> num_end, has_num |-> TRUE,
          num |-> DecimalValue(l, q + 1, num_end - 2)]
    ELSE IF q <= Len(l) /\ l[q] = "{"
    THEN [ok |-> TRUE, end |-> q, has_num |-> FALSE, num |-> 0]
    ELSE [ok |-> FALSE, end |-> 0, has_num |-> FALSE, num |-> 0]

NumTail(l, q) == NumTailOf(l, q, NumEnd(l, q))

\* }?(\[(\d+)\])?{ at e: the "}" is taken before it is skipped
CloseTailOf(l, e, taken, skipped) ==
    IF e <= Len(l) /\ l[e] = "}" /\ taken.ok THEN taken ELSE skipped

CloseTail(l, e) == CloseTailOf(l, e, NumTail(l, e + 1), NumTail(l, e))

\* (.*?)}?(\[(\d+)\])?{ with the name starting at a: where the name may end
NameEnds(l, a) ==
    {e \in a..Len(l) : (\A k \in a..(e - 1) : l[k] # NL) /\ CloseTail(l, e).ok}

\* where the name may start after \(re)newcommand ending before p0, in the
\* order the matcher tries: "*" and "{" are taken before they are skipped
NameStarts(l, p0) ==
    IF p0 <= Len(l) /\ l[p0] = "*"
    THEN (IF p0 + 1 <= Len(l) /\ l[p0 + 1] = "{" THEN <<p0 + 2>> ELSE <<>>)
         \o <<p0 + 1, p0>>
    ELSE (IF p0 <= Len(l) /\ l[p0] = "{" THEN <<p0 + 1>> ELSE <<>>)
         \o <<p0>>

\* the first of starts from which the rest of the pattern matches, or 0
FirstNameStart(l, starts) ==
    LET good == {k \in 1..Len(starts) : NameEnds(l, starts[k]) # {}}
    IN  IF good = {} THEN 0 ELSE starts[Min(good)]

\* the groups of the match from s whose name is l[a..e-1] (the shortest name
\* first) and whose tail is t
NewcommandGroups(l, s, a, e, t) ==
    [ok |-> TRUE,
     is_renew |-> l[s + 1] = "renewcommand",
     command_name |-> SubSeq(l, a, e - 1),
     has_num |-> t.has_num,
     num_args |-> t.num,
     end |-> t.end]

NoMatch ==
    [ok |-> FALSE, is_renew |-> FALSE, command_name |-> <<>>,
     has_num |-> FALSE, num_args |-> 0, end |-> 0]

NewcommandNamed(l, s, a, e) == NewcommandGroups(l, s, a, e, CloseTail(l, e))

NewcommandFrom(l, s, a) ==
    IF a = 0 THEN NoMatch ELSE NewcommandNamed(l, s, a, Min(NameEnds(l, a)))

\* the match of _RE_NEWCOMMAND that starts at s
NewcommandAt(l, s) ==
    IF s + 1 <= Len(l) /\ l[s] = BS /\ l[s + 1] \in {"newcommand", "renewcommand"}
    THEN NewcommandFrom(l, s, FirstNameStart(l, NameStarts(l, s + 2)))
    ELSE NoMatch

\* _RE_NEWCOMMAND.search(line): the leftmost match
NewcommandSearch(l) ==
    LET hits == {s \in 1..Len(l) : NewcommandAt(l, s).ok}
    IN  IF hits = {} THEN NoMatch ELSE NewcommandAt(l, Min(hits))

\* ------------------------------------------------------------ macro table
\* A compiled invocation matcher of _regexes (main2.py:310-319), for a name
\* that is a backslash and a word: bare is the form (\name)(\W|$) compiled
\* when the definition has no [n], otherwise the form is (\name) followed by
\* groups times {(.*?)}.
Matcher(command_name, has_num, num_args) ==
    [name |-> command_name, bare |-> ~has_num, groups |-> num_args]

NoArgs(p) == [ok |-> FALSE, end |-> p, args |-> <<>>]

\* {(.*?)} n times at p: every group the shortest that lets the rest match
RECURSIVE MatchArgs(_, _, _)

\* the first group is s[p+1..e-1] and rest is the match of the other groups
ArgsWith(s, p, e, rest) ==
    [ok |-> TRUE, end |-> rest.end,
     args |-> <<SubSeq(s, p + 1, e - 1)>> \o rest.args]

MatchArgs(s, p, n) ==
    IF n = 0 THEN [ok |-> TRUE, end |-> p, args |-> <<>>]
    ELSE IF p > Len(s) \/ s[p] # "{" THEN NoArgs(p)
    ELSE LET ends == {e \in (p + 1)..Len(s) :
                         /\ s[e] = "}"
                         /\ \A k \in (p + 1)..(e - 1) : s[k] # NL
                         /\ MatchArgs(s, e + 1, n - 1).ok}
         IN  IF ends = {} THEN NoArgs(p)
             ELSE ArgsWith(s, p, Min(ends), MatchArgs(s, Min(ends) + 1, n - 1))

NoInvocation(i) == [ok |-> FALSE, end |-> i, args |-> <<>>, group2 |-> <<>>]

\* the argument form: the groups m after the name
InvocationWith(m) ==
    [ok |-> m.ok, end |-> m.end, args |-> m.args, group2 |-> <<>>]

\* the match of matcher r that starts at i: end is the index after the match,
\* args the groups 2.. of the argument form, group2 the (\W|$) of the bare form
MatchAt(r, s, i) ==
    IF ~At(s, i, r.name) THEN NoInvocation(i)
    ELSE IF r.bare
    THEN IF i + Len(r.name) <= Len(s) /\ ~IsWord(s[i + Len(r.name)])
         THEN [ok |-> TRUE, end |-> i + Len(r.name) + 1, args |-> <<>>,
               group2 |-> <<s[i + Len(r.name)]>>]
         ELSE IF i + Len(r.name) = Len(s) + 1
         THEN [ok |-> TRUE, end |-> Len(s) + 1, args |-> <<>>, group2 |-> <<>>]
         ELSE NoInvocation(i)
    ELSE InvocationWith(MatchArgs(s, i + Len(r.name), r.groups))

\* r.search(s, pos): the index of the leftmost match from pos on, or 0
SearchFrom(r, s, pos) ==
    LET hits == {i \in pos..Len(s) : MatchAt(r, s, i).ok}
    IN  IF hits = {} THEN 0 ELSE Min(hits)

\* _replace_all(s, {'#1': args[1], ...}) from index i on: one pass, what is
\* put in is not scanned again
RECURSIVE ReplaceFrom(_, _, _)
ReplaceFrom(s, i, args) ==
    IF i > Len(s) THEN <<>>
    ELSE IF /\ s[i] = "#"
            /\ i + 1 <= Len(s)
            /\ s[i + 1] \in Digits
            /\ DigitVal(s[i + 1]) \in 1..Len(args)
    THEN args[DigitVal(s[i + 1])] \o ReplaceFrom(s, i + 2, args)
    ELSE <<s[i]>> \o ReplaceFrom(s, i + 1, args)

\* a body put in as it is stored, its placeholders left in place
_replace_all_keeping_placeholders(s, args) == s

_replace_all(s, args) == ReplaceFrom(s, 1, args)

\* The depth of nested _resolve_definitions calls at which the interpreter's
\* recursion limit ends an expansion that does not end by itself.
MaxExpandDepth == 3

Raised(e) == [err |-> e, text |-> <<>>]

\* _resolve_definitions(s) with the matchers rx (in the order of the dict
\* _regexes) and the definitions defs: [err, text].  ResolveWith applies the
\* matchers rx[k..]; SubFrom is r.sub(repl, s) from index pos on.
RECURSIVE ResolveWith(_, _, _, _, _)
RECURSIVE SubFrom(_, _, _, _, _, _)

\* _replace_defs_for_match on the match m of matcher r, whose definition is d
_replace_defs_for_match(rx, defs, r, d, m, depth) ==
    IF d.num_args > 0
    THEN IF Len(m.args) # d.num_args THEN Raised("ParseException")
         ELSE ResolveWith(rx, defs, 1, _replace_all(d.definition, m.args),
                          depth + 1)
    ELSE IF ~r.bare THEN Raised("IndexError")
    ELSE ResolveWith(rx, defs, 1, d.definition \o m.group2, depth + 1)

\* the text from pos on with the match at i replaced by rep and the text
\* after it by rest
SubJoin(s, pos, i, rep, rest) ==
    IF rest.err # "none" THEN rest
    ELSE [err |-> "none", text |-> SubSeq(s, pos, i - 1) \o rep.text \o rest.text]

SubRest(rx, defs, r, s, pos, depth, i, m, rep) ==
    IF rep.err # "none" THEN rep
    ELSE SubJoin(s, pos, i, rep, SubFrom(rx, defs, r, s, m.end, depth))

SubMatch(rx, defs, r, s, pos, depth, i, m) ==
    SubRest(rx, defs, r, s, pos, depth, i, m,
            _replace_defs_for_match(rx, defs, r, defs[r.name], m, depth))

SubAt(rx, defs, r, s, pos, depth, i) ==
    IF i = 0 THEN [err |-> "none", text |-> From(s, pos)]
    ELSE SubMatch(rx, defs, r, s, pos, depth, i, MatchAt(r, s, i))

SubFrom(rx, defs, r, s, pos, depth) ==
    SubAt(rx, defs, r, s, pos, depth, SearchFrom(r, s, pos))

\* the matchers after rx[k], on the result one of rx[k]
ResolveNext(rx, defs, k, depth, one) ==
    IF one.err # "none" THEN one
    ELSE ResolveWith(rx, defs, k + 1, one.text, depth)

ResolveWith(rx, defs, k, s, depth) ==
    IF depth > MaxExpandDepth THEN Raised("RecursionError")
    ELSE IF k > Len(rx) THEN [err |-> "none", text |-> s]
    ELSE ResolveNext(rx, defs, k, depth, SubFrom(rx, defs, rx[k], s, 1, depth))

_resolve_definitions(rx, defs, s) == ResolveWith(rx, defs, 1, s, 0)

\* -------------------------------------------------------- include resolver
\* IncludeCommand(regex, path_group, possible_extensions, needs_parse,
\* must_exist): the regex is \\keyword{(.*?)}, with (\[.*?\])? before the
\* "{" when optional is set.
IncludeCommand(keyword, optional, possible_extensions, needs_parse, must_exist) ==
    [keyword |-> keyword, optional |-> optional,
     possible_extensions |-> possible_extensions,
     needs_parse |-> needs_parse, must_exist |-> must_exist]

_STATIC_INCLUDES ==
    << IncludeCommand("includegraphics", TRUE, {}, FALSE, TRUE),
       IncludeCommand("overpic", TRUE, {}, FALSE, TRUE) >>

_TEX_INCLUDES ==
    << IncludeCommand("input", FALSE, {<<".", "tex">>}, TRUE, TRUE),
       IncludeCommand("subfile", FALSE, {<<".", "tex">>}, TRUE, TRUE),
       IncludeCommand("usepackage", TRUE, {<<".", "sty">>}, TRUE, FALSE),
       IncludeCommand("bibliographystyle", FALSE, {<<".", "bst">>}, FALSE, TRUE),
       IncludeCommand("bibliography", FALSE, {<<".", "bib">>}, FALSE, TRUE) >>

\* {(.*?)} at p: the index of the first "}" on the same line, or 0
PathEnd(l, p) ==
    IF p > Len(l) \/ l[p] # "{" THEN 0
    ELSE LET ends == {e \in (p + 1)..Len(l) :
                         l[e] = "}" /\ \A k \in (p + 1)..(e - 1) : l[k] # NL}
         IN  IF ends = {} THEN 0 ELSE Min(ends)

\* (\[.*?\])?{ at p: the index of the "{" that opens the path, or 0; the
\* bracket group is the shortest that lets the rest match, and is skipped when
\* none does
PathOpen(c, l, p) ==
    LET opens == IF c.optional /\ p <= Len(l) /\ l[p] = "["
                 THEN {j \in (p + 1)..Len(l) :
                          /\ l[j - 1] = "]" /\ j - 1 > p
                          /\ \A k \in (p + 1)..(j - 2) : l[k] # NL
                          /\ PathEnd(l, j) # 0}
                 ELSE {}
    IN  IF opens # {} THEN Min(opens) ELSE IF PathEnd(l, p) # 0 THEN p ELSE 0

NoInclude(i) == [ok |-> FALSE, end |-> i, tex_path |-> <<>>]

\* the match whose path is l[o+1..e-1]
IncludeWith(l, i, o, e) ==
    IF o = 0 THEN NoInclude(i)
    ELSE [ok |-> TRUE, end |-> e + 1, tex_path |-> SubSeq(l, o + 1, e - 1)]

IncludeOpen(l, i, o) == IncludeWith(l, i, o, PathEnd(l, o))

\* the match of c.regex that starts at i
IncludeAt(c, l, i) ==
    IF i + 1 <= Len(l) /\ l[i] = BS /\ l[i + 1] = c.keyword
    THEN IncludeOpen(l, i, PathOpen(c, l, i + 2))
    ELSE NoInclude(i)

\* c.regex.finditer(l) from index pos on: the paths of the matches, in order
RECURSIVE FindIter(_, _, _)

FindNext(c, l, m) == <<m.tex_path>> \o FindIter(c, l, m.end)

FindIter(c, l, pos) ==
    LET hits == {i \in pos..Len(l) : IncludeAt(c, l, i).ok}
    IN  IF hits = {} THEN <<>> ELSE FindNext(c, l, IncludeAt(c, l, Min(hits)))

\* the matches of the k-th command, whose paths are paths
MatchesOf(k, paths) ==
    [j \in 1..Len(paths) |-> [command |-> k, tex_path |-> paths[j]]]

\* Copier._match_all(l, include_commands) from the k-th command on: the pairs
\* (index of the command, path as written), command by command
RECURSIVE MatchAllFrom(_, _, _)
MatchAllFrom(l, include_commands, k) ==
    IF k > Len(include_commands) THEN <<>>
    ELSE MatchesOf(k, FindIter(include_commands[k], l, 1))
         \o MatchAllFrom(l, include_commands, k + 1)

_match_all(l, include_commands) == MatchAllFrom(l, include_commands, 1)

\* os.path.splitext(p)[1]: from the last "." of the last path component on,
\* unless only dots precede it there
SplitExt(p) ==
    LET slashes == {i \in 1..Len(p) : p[i] = "/"}
        base == IF slashes = {} THEN 1 ELSE Max(slashes) + 1
        dots == {i \in base..Len(p) :
                    p[i] = "." /\ \E k \in base..(i - 1) : p[k] # "."}
    IN  IF dots = {} THEN <<>> ELSE From(p, Max(dots))

\* glob.glob(real_path + '.*') on the files of the tree: the files of the same
\* directory whose name starts with the name of path and a "."
Glob(files, path) ==
    {f \in files :
        /\ Len(f) > Len(path)
        /\ Upto(f, Len(path)) = path
        /\ f[Len(path) + 1] = "."
        /\ \A k \in (Len(path) + 1)..Len(f) : f[k] # "/"}

\* a resolver that takes some candidate when there are several
_real_path_for_static_file_guessing(files, tex_path) ==
    IF SplitExt(tex_path) # <<>>
    THEN IF tex_path \notin files
         THEN [err |-> "ParseException", path |-> None]
         ELSE [err |-> "none", path |-> tex_path]
    ELSE IF Glob(files, tex_path) = {}
    THEN [err |-> "ParseException", path |-> None]
    ELSE [err |-> "none", path |-> CHOOSE f \in Glob(files, tex_path) : TRUE]

\* Copier._real_path_for_static_file(tex_path), as a path relative to the root
\* (_included_static_files removes the root directory from it again)
_real_path_for_static_file(files, tex_path) ==
    IF SplitExt(tex_path) # <<>>
    THEN IF tex_path \notin files
         THEN [err |-> "ParseException", path |-> None]
         ELSE [err |-> "none", path |-> tex_path]
    ELSE LET candidates == Glob(files, tex_path)
         IN  IF Cardinality(candidates) # 1
             THEN [err |-> "ParseException", path |-> None]
             ELSE [err |-> "none", path |-> CHOOSE f \in candidates : TRUE]

\* Copier._real_rel_path_for_tex_file(tex_path, possible_extensions,
\* must_exist); a path of None is the function ending without a return
_real_rel_path_for_tex_file(files, tex_path, possible_extensions, must_exist) ==
    IF SplitExt(tex_path) # <<>>
    THEN IF tex_path \notin files /\ must_exist
         THEN [err |-> "ParseException", path |-> None]
         ELSE [err |-> "none", path |-> tex_path]
    ELSE LET found == {e \in possible_extensions : (tex_path \o e) \in files}
         IN  IF found # {}
             THEN [err |-> "none", path |-> tex_path \o (CHOOSE e \in found : TRUE)]
             ELSE IF must_exist
             THEN [err |-> "ParseException", path |-> None]
             ELSE [err |-> "none", path |-> None]

\* ------------------------------------------------------ definition extractor
\* the names that have a matcher
RegexNames(rx) == {rx[k].name : k \in 1..Len(rx)}

\* a matcher that is not discarded
DelRegex_keeping_matcher(rx, command_name) == rx

\* del self._regexes[command_name]
DelRegex(rx, command_name) == SelectSeq(rx, LAMBDA r : r.name # command_name)

\* del self._command_definitions[command_name]
DelDefinition(defs, command_name) ==
    [n \in DOMAIN defs \ {command_name} |-> defs[n]]

\* self._command_definitions[command_name] = (command, num_args)
SetDefinition(defs, command_name, command, num_args) ==
    [n \in DOMAIN defs \cup {command_name} |->
        IF n = command_name
        THEN [definition |-> command, num_args |-> num_args]
        ELSE defs[n]]

\* main2.py:298-322: the match m of the definition matcher, whose body and
\* rest of line are c, on the table (rx, defs)
Extraction(err, line, pos, rx, defs, m, c, known) ==
    [err |-> err, line |-> line, pos |-> pos, rx |-> rx, defs |-> defs,
     defines |-> m.ok, m |-> m, command |-> c.command, known |-> known]

Register(rx, defs, line, m, c) ==
    IF c.err # "none"
    THEN Extraction(c.err, line, c.pos, rx, defs, m, c, FALSE)
    ELSE IF m.command_name \in RegexNames(rx)
    THEN IF ~m.is_renew
         THEN Extraction("ParseException", line, c.pos, rx, defs, m, c, TRUE)
         ELSE Extraction(
                  "none", c.remaining, c.pos,
                  Append(DelRegex(rx, m.command_name),
                         Matcher(m.command_name, m.has_num, m.num_args)),
                  SetDefinition(DelDefinition(defs, m.command_name),
                                m.command_name, c.command, m.num_args),
                  m, c, TRUE)
    ELSE Extraction(
             "none", c.remaining, c.pos,
             Append(rx, Matcher(m.command_name, m.has_num, m.num_args)),
             SetDefinition(defs, m.command_name, c.command, m.num_args),
             m, c, FALSE)

\* main2.py:288-297 on the match m of the definition matcher
ExtractMatch(rx, defs, line, file, pos, m) ==
    IF ~m.ok
    THEN Extraction("none", line, pos, rx, defs, m, ConsumeError("none", pos),
                    FALSE)
    ELSE Register(rx, defs, line, m,
                  _consume_until_closing_bracket(From(line, m.end), file, pos))

\* Copier._extract_definition(line, f_iter) on the table (rx, defs), f_iter
\* being at line pos of file: the line returned, the table and the position of
\* the iterator afterwards, or the exception raised (the table is then as it
\* was at the raise); defines tells whether the line holds a definition.
_extract_definition(rx, defs, line, file, pos) ==
    ExtractMatch(rx, defs, line, file, pos, NewcommandSearch(line))

\* ------------------------------------------------------------------ copier
VARIABLES
    disk,                   \* the source tree: relative path -> lines of the file
    out_tree,               \* the output tree: relative path -> what was written
    out_dirs,               \* the directories that exist below out_dir
    _copied_file_ps,        \* Copier._copied_file_ps
    copies,                 \* every shutil.copy of the run, in order (its target)
    _regexes,               \* Copier._regexes, in the order of the dict
    _command_definitions,   \* Copier._command_definitions
    encodings,              \* Copier.encodings, the candidates in their order
    locale,                 \* the encoding open() takes when none is named
    stack,                  \* the active calls of _parse_file, innermost last
    status,                 \* "idle", "running", "done" or "failed"
    error,                  \* the exception that ended a failed run
    last,                   \* what the last step read and computed
    scn                     \* the parts the root document was written from

vars == <<disk, out_tree, out_dirs, _copied_file_ps, copies, _regexes,
          _command_definitions, encodings, locale, stack, status, error, last,
          scn>>

\* Copier.tex_root_p
tex_root_p == <<"main", ".", "tex">>

\* str.endswith of a path
EndsWith(p, suffix) ==
    Len(p) >= Len(suffix) /\ From(p, Len(p) - Len(suffix) + 1) = suffix

\* os.path.dirname of a relative path (<<>> is out_dir itself)
DirName(p) ==
    LET slashes == {i \in 1..Len(p) : p[i] = "/"}
    IN  IF slashes = {} THEN <<>> ELSE Upto(p, Max(slashes) - 1)

\* os.makedirs(d, exist_ok=True): d and every directory above it
MakeDirs(dirs, d) ==
    dirs \cup {Upto(d, i - 1) : i \in {j \in 2..(Len(d) + 1) :
                                          j = Len(d) + 1 \/ d[j] = "/"}}

\* fout.write(l) and fout.write('\n'), main2.py:533-536: the lines the file
\* gains; an l without newline (the last line of the file read) and the
\* newline written after it are one line
MarkerWritten(l) ==
    IF l[Len(l)] = NL THEN <<l, <<NL>>>> ELSE <<l \o <<NL>>>>

\* one turn of the loop of strip_comments (main2.py:528-537) on a line
\* stripped to l: what is written, l_prev afterwards, and whether the loop
\* is left
StripNext(l_prev, l) ==
    IF l = None THEN [written |-> <<>>, l_prev |-> l_prev, ended |-> FALSE]
    ELSE IF Contains(l, _END_DOCUMENT_MARKER)
    THEN [written |-> MarkerWritten(l), l_prev |-> l, ended |-> TRUE]
    ELSE [written |-> <<l>>, l_prev |-> l, ended |-> FALSE]

\* the loop of strip_comments over lines[a..b], entered with l_prev: the
\* turns for the first half of the lines, then those for the second half
RECURSIVE StripFrom(_, _, _, _)

\* the turns for lines[a..b] after those that gave r
StripOn(lines, a, b, r, s) ==
    [written |-> r.written \o s.written, l_prev |-> s.l_prev,
     ended |-> s.ended]

StripRest(lines, a, b, r) ==
    IF r.ended THEN r ELSE StripOn(lines, a, b, r, StripFrom(lines, a, b, r.l_prev))

StripFrom(lines, a, b, l_prev) ==
    IF a > b THEN [written |-> <<>>, l_prev |-> l_prev, ended |-> FALSE]
    ELSE IF a = b
    THEN StripNext(l_prev, strip_comments_from_line(lines[a], l_prev))
    ELSE StripRest(lines, (a + b) \div 2 + 1, b,
                   StripFrom(lines, a, (a + b) \div 2, l_prev))

\* strip_comments(p): what is written for the lines of the copied file
strip_comments(lines) == StripFrom(lines, 1, Len(lines), None).written

\* A byte that is text in latin-1 and in no other encoding of the model
\* (0xE9 on its own); a file is a list of lines of atoms, and this atom
\* stands where the file holds that byte.
ByteE9 == "byte_e9"

\* open(p, 'r', encoding=enc) and the reads from it: whether the bytes of the
\* file decode.  The files of the model are shorter than the buffer of the
\* reader, so that the first read decodes the whole file.
Decodes(enc, lines) ==
    enc = "latin1" \/ \A i \in 1..Len(lines) : ~Contains(lines[i], <<ByteE9>>)

\* _modify_file: the path of the file the stripped lines are written to
TmpPath(p) == Upto(p, Len(p) - 1) \o <<"tex_tmp">>

\* the output tree with content written at path
Written(tree, path, content) ==
    [q \in DOMAIN tree \cup {path} |-> IF q = path THEN content ELSE tree[q]]

\* Copier._copy(relative_p): the exception it raises, or the output afterwards
_copy(relative_p) ==
    IF relative_p \notin DOMAIN disk
    THEN [err |-> "AssertionError", out_tree |-> out_tree,
          copied |-> _copied_file_ps, copies |-> copies]
    ELSE IF DirName(relative_p) # <<>> /\ DirName(relative_p) \notin out_dirs
    THEN [err |-> "FileNotFoundError", out_tree |-> out_tree,
          copied |-> _copied_file_ps, copies |-> copies]
    ELSE IF /\ EndsWith(relative_p, <<".", "tex">>)
            /\ ~Decodes(locale, disk[relative_p])
    THEN [err |-> "UnicodeDecodeError",
          out_tree |-> Written(Written(out_tree, relative_p, disk[relative_p]),
                               TmpPath(relative_p), <<>>),
          copied |-> _copied_file_ps \cup {relative_p},
          copies |-> Append(copies, relative_p)]
    ELSE [err |-> "none",
          out_tree |-> Written(out_tree, relative_p,
                               IF EndsWith(relative_p, <<".", "tex">>)
                               THEN strip_comments(disk[relative_p])
                               ELSE disk[relative_p]),
          copied |-> _copied_file_ps \cup {relative_p},
          copies |-> Append(copies, relative_p)]

\* Copier._copy_static(static_file) with real_path: _convert_jpg_exts is
\* empty, so the file is always copied as it is
_copy_static(real_path) ==
    [err |-> "none",
     out_tree |-> Written(out_tree, real_path, disk[real_path]),
     out_dirs |-> IF DirName(real_path) = <<>> THEN out_dirs
                  ELSE MakeDirs(out_dirs, DirName(real_path)),
     copied |-> _copied_file_ps \cup {real_path},
     copies |-> Append(copies, real_path)]

\* The deepest nesting of _parse_file calls the model follows; a deeper call
\* ends the run as the interpreter's recursion limit does.
MaxStack == 4

\* A call of _parse_file: the file, the index of the next line f_iter yields,
\* and where the body of the loop stands: "read" before a line is read, "tex"
\* at the k-th match of _included_tex_files(line), "static" at the k-th match
\* of _included_static_files(line); tex and static are the matches of line.
Frame(file, pos, phase, line, k, tex, static) ==
    [file |-> file, pos |-> pos, phase |-> phase, line |-> line, k |-> k,
     tex |-> tex, static |-> static]

ReadFrame(file, pos) == Frame(file, pos, "read", <<>>, 0, <<>>, <<>>)

\* where the loop of _parse_file (main2.py:280-285) stands after the k-th
\* match of its phase: the next match of the line, or the next line
Settle(f) ==
    IF f.phase = "tex" /\ f.k <= Len(f.tex) THEN f
    ELSE IF f.phase = "tex" /\ Len(f.static) > 0
    THEN [f EXCEPT !.phase = "static", !.k = 1]
    ELSE IF f.phase = "static" /\ f.k <= Len(f.static) THEN f
    ELSE ReadFrame(f.file, f.pos)

Top == stack[Len(stack)]

\* _parse_file, main2.py:269-272: the file of frame f has no line left, or its
\* next line holds the end-of-document marker
LoopEnds(f) ==
    IF f.pos > Len(disk[f.file]) THEN TRUE
    ELSE Contains(disk[f.file][f.pos], _END_DOCUMENT_MARKER)

SetTop(f) == [stack EXCEPT ![Len(stack)] = f]

\* relative_p.endswith('.sty')
is_sty_file(relative_p) == EndsWith(relative_p, <<".", "sty">>)

\* What a step did: its operation, the file it worked on, the line as read,
\* the line after _extract_definition, after _resolve_definitions, whether it
\* held a definition (and its name, directive, arity and body), the path an
\* include wrote and the file it resolved to, the index of its command, the
\* number of copies and of active calls before the step, the line after
\* strip_comments_from_line, its index in the file and the index in it of the
\* brace that opens the body of a definition, and the exception the step
\* raised.
NoStep ==
    [op |-> "none", file |-> <<>>, raw |-> <<>>, rest |-> <<>>,
     expanded |-> <<>>, defines |-> FALSE, command_name |-> <<>>,
     is_renew |-> FALSE, num_args |-> 0, body |-> <<>>, known |-> FALSE,
     tex_path |-> <<>>, path |-> <<>>, command |-> 0,
     ncopies |-> 0, depth |-> 0, stripped |-> <<>>, pos |-> 0, brace |-> 0,
     raised |-> "none"]

Step(op) ==
    [NoStep EXCEPT !.op = op, !.ncopies = Len(copies), !.depth = Len(stack),
                   !.file = IF stack = <<>> THEN <<>> ELSE Top.file]

\* a context manager that suppresses every exception raised in its body
OpenExit_suppressing(e) == "none"

\* _open, main2.py:540-549: what leaves the with statement of _parse_file
\* when exception e is raised in its body.  The generator is at the yield of
\* its first candidate; a UnicodeDecodeError is caught there, and the loop
\* either ends (the exception is suppressed) or yields for the next candidate,
\* which contextmanager answers with a RuntimeError.
OpenExit(e) ==
    IF e # "UnicodeDecodeError" THEN e
    ELSE IF Len(encodings) > 1 THEN "RuntimeError"
    ELSE "none"

\* exception e raised in the body of the with statement of the depth-th call
\* of _parse_file: the exception that leaves the innermost call that does not
\* suppress it, and the number of calls that stay active
RECURSIVE Propagate(_, _)
Propagate(e, depth) ==
    IF depth = 0 \/ e = "none" THEN [error |-> e, depth |-> depth]
    ELSE Propagate(OpenExit(e), depth - 1)

\* what _copy leaves when it is not called
Uncopied ==
    [out_tree |-> out_tree, copied |-> _copied_file_ps, copies |-> copies]

\* the step raises e after the copy c: the exception passes the with
\* statements of the active calls, and ends the run unless one suppresses it
\* (the stack of a failed run is left as the exception found it)
Raise(e, step, c) ==
    \E u \in {Propagate(e, Len(stack))} :
       /\ status' = IF u.error # "none" THEN "failed"
                    ELSE IF u.depth = 0 THEN "done" ELSE "running"
       /\ error' = u.error
       /\ stack' = IF u.error # "none" THEN stack
                   ELSE SubSeq(stack, 1, u.depth)
       /\ last' = [step EXCEPT !.raised = e]
       /\ out_tree' = c.out_tree
       /\ _copied_file_ps' = c.copied
       /\ copies' = c.copies
       /\ UNCHANGED <<disk, out_dirs, encodings, locale, scn>>

\* Copier.copy(): the root document is copied, then parsed
Copy ==
    /\ status = "idle"
    /\ UNCHANGED <<_regexes, _command_definitions>>
    /\ \E c \in {_copy(tex_root_p)} :
       \E step \in {[Step("copy") EXCEPT !.path = tex_root_p]} :
          IF c.err # "none" THEN Raise(c.err, step, c)
          ELSE /\ out_tree' = c.out_tree
               /\ _copied_file_ps' = c.copied
               /\ copies' = c.copies
               /\ stack' = <<ReadFrame(tex_root_p, 1)>>
               /\ status' = "running"
               /\ last' = step
               /\ UNCHANGED <<disk, out_dirs, encodings, locale, error, scn>>

\* a return that ends the scope of the definitions made so far
Return_forgetting_definitions ==
    /\ status = "running"
    /\ Top.phase = "read"
    /\ Decodes(encodings[1], disk[Top.file])
    /\ LoopEnds(Top)
    /\ stack' = SubSeq(stack, 1, Len(stack) - 1)
    /\ status' = IF Len(stack) = 1 THEN "done" ELSE "running"
    /\ last' = Step("return")
    /\ _regexes' = <<>>
    /\ _command_definitions' = <<>>
    /\ UNCHANGED <<disk, out_tree, out_dirs, _copied_file_ps, copies,
                   encodings, locale, error, scn>>

\* _parse_file: the loop over the lines is over (the file has no more lines, or
\* the next one holds the end-of-document marker) and the call returns
Return ==
    /\ status = "running"
    /\ Top.phase = "read"
    /\ Decodes(encodings[1], disk[Top.file])
    /\ LoopEnds(Top)
    /\ stack' = SubSeq(stack, 1, Len(stack) - 1)
    /\ status' = IF Len(stack) = 1 THEN "done" ELSE "running"
    /\ last' = Step("return")
    /\ UNCHANGED <<disk, out_tree, out_dirs, _copied_file_ps, copies, _regexes,
                   _command_definitions, encodings, locale, error, scn>>

\* _parse_file, main2.py:264-266: the first read from the file does not decode
\* with the candidate it was opened with, and UnicodeDecodeError is raised in
\* the body of the with statement
ReadFails ==
    /\ status = "running"
    /\ Top.phase = "read"
    /\ ~Decodes(encodings[1], disk[Top.file])
    /\ UNCHANGED <<_regexes, _command_definitions>>
    /\ Raise("UnicodeDecodeError", Step("read"), Uncopied)

\* main2.py:276-278: the stripped line of `file` after _extract_definition,
\* which a .sty file skips
Extracted(file, stripped, pos) ==
    IF is_sty_file(file)
    THEN Extraction("none", stripped, pos, _regexes, _command_definitions,
                    NoMatch, ConsumeError("none", pos), FALSE)
    ELSE _extract_definition(_regexes, _command_definitions, stripped,
                             disk[file], pos)

\* main2.py:278: the line x after _resolve_definitions, which a .sty file skips
Resolved(file, x) ==
    IF is_sty_file(file) \/ x.err # "none"
    THEN [err |-> x.err, text |-> x.line]
    ELSE _resolve_definitions(x.rx, x.defs, x.line)

\* _parse_file, main2.py:269-278: the next line is read, stripped of comments,
\* searched for a definition and expanded (unless the file is a .sty file)
ParseLine ==
    /\ status = "running"
    /\ Top.phase = "read"
    /\ Decodes(encodings[1], disk[Top.file])
    /\ ~LoopEnds(Top)
    /\ \E l \in {strip_comments_from_line(disk[Top.file][Top.pos], None)} :
       \E x \in {Extracted(Top.file, l, Top.pos + 1)} :
       \E r \in {Resolved(Top.file, x)} :
       \E step \in {[Step("line") EXCEPT
                        !.raw = disk[Top.file][Top.pos], !.rest = x.line,
                        !.stripped = l, !.pos = Top.pos, !.brace = x.m.end,
                        !.expanded = r.text, !.defines = x.defines,
                        !.command_name = x.m.command_name,
                        !.is_renew = x.m.is_renew, !.num_args = x.m.num_args,
                        !.body = x.command, !.known = x.known]} :
          /\ _regexes' = x.rx
          /\ _command_definitions' = x.defs
          /\ IF r.err # "none" THEN Raise(r.err, step, Uncopied)
             ELSE /\ stack' = SetTop(Settle(Frame(
                                 Top.file, x.pos, "tex", r.text, 1,
                                 _match_all(r.text, _TEX_INCLUDES),
                                 _match_all(r.text, _STATIC_INCLUDES))))
                  /\ last' = step
                  /\ UNCHANGED <<disk, out_tree, out_dirs, _copied_file_ps,
                                 copies, encodings, locale, status, error, scn>>

\* a walker that detects cycles: a document include that resolves to a file
\* copied before is passed over
IncludeTex_skipping_copied ==
    /\ status = "running"
    /\ Top.phase = "tex"
    /\ UNCHANGED <<_regexes, _command_definitions>>
    /\ \E m \in {Top.tex[Top.k]} :
       \E c \in {_TEX_INCLUDES[m.command]} :
       \E p \in {_real_rel_path_for_tex_file(DOMAIN disk, m.tex_path,
                                             c.possible_extensions,
                                             c.must_exist)} :
       \E step \in {[Step("tex") EXCEPT
                        !.expanded = Top.line, !.tex_path = m.tex_path,
                        !.path = p.path, !.command = m.command]} :
       \E next \in {SetTop(Settle([Top EXCEPT !.k = Top.k + 1]))} :
          IF p.err # "none" THEN Raise(p.err, step, Uncopied)
          ELSE IF p.path = None \/ p.path \in _copied_file_ps
          THEN /\ stack' = next
               /\ last' = step
               /\ UNCHANGED <<disk, out_tree, out_dirs, _copied_file_ps,
                              copies, encodings, locale, status, error, scn>>
          ELSE \E cp \in {_copy(p.path)} :
               IF cp.err # "none" THEN Raise(cp.err, step, cp)
               ELSE IF c.needs_parse /\ Len(stack) >= MaxStack
               THEN Raise("RecursionError", step, cp)
               ELSE /\ out_tree' = cp.out_tree
                    /\ _copied_file_ps' = cp.copied
                    /\ copies' = cp.copies
                    /\ last' = step
                    /\ UNCHANGED <<disk, out_dirs, encodings, locale, scn>>
                    /\ stack' = IF c.needs_parse
                                THEN Append(next, ReadFrame(p.path, 1))
                                ELSE next
                    /\ UNCHANGED <<status, error>>

\* _parse_file, main2.py:280-283: the next document include of the line is
\* resolved, copied and, if its command asks for it, parsed
IncludeTex ==
    /\ status = "running"
    /\ Top.phase = "tex"
    /\ UNCHANGED <<_regexes, _command_definitions>>
    /\ \E m \in {Top.tex[Top.k]} :
       \E c \in {_TEX_INCLUDES[m.command]} :
       \E p \in {_real_rel_path_for_tex_file(DOMAIN disk, m.tex_path,
                                             c.possible_extensions,
                                             c.must_exist)} :
       \E cp \in {_copy(p.path)} :
       \E step \in {[Step("tex") EXCEPT
                        !.expanded = Top.line, !.tex_path = m.tex_path,
                        !.path = p.path, !.command = m.command]} :
       \E next \in {SetTop(Settle([Top EXCEPT !.k = Top.k + 1]))} :
          IF p.err # "none" THEN Raise(p.err, step, Uncopied)
          ELSE IF p.path = None
          THEN /\ stack' = next
               /\ last' = step
               /\ UNCHANGED <<disk, out_tree, out_dirs, _copied_file_ps,
                              copies, encodings, locale, status, error, scn>>
          ELSE IF cp.err # "none" THEN Raise(cp.err, step, cp)
          ELSE IF c.needs_parse /\ Len(stack) >= MaxStack
          THEN Raise("RecursionError", step, cp)
          ELSE /\ out_tree' = cp.out_tree
               /\ _copied_file_ps' = cp.copied
               /\ copies' = cp.copies
               /\ last' = step
               /\ UNCHANGED <<disk, out_dirs, encodings, locale, scn>>
               /\ stack' = IF c.needs_parse
                           THEN Append(next, ReadFrame(p.path, 1))
                           ELSE next
               /\ UNCHANGED <<status, error>>

\* _parse_file, main2.py:284-285: the next static include of the line is
\* resolved and copied
IncludeStatic ==
    /\ status = "running"
    /\ Top.phase = "static"
    /\ UNCHANGED <<_regexes, _command_definitions>>
    /\ \E m \in {Top.static[Top.k]} :
       \E p \in {_real_path_for_static_file(DOMAIN disk, m.tex_path)} :
       \E step \in {[Step("static") EXCEPT
                        !.expanded = Top.line, !.tex_path = m.tex_path,
                        !.path = p.path, !.command = m.command]} :
          IF p.err # "none" THEN Raise(p.err, step, Uncopied)
          ELSE \E cp \in {_copy_static(p.path)} :
               /\ out_tree' = cp.out_tree
               /\ out_dirs' = cp.out_dirs
               /\ _copied_file_ps' = cp.copied
               /\ copies' = cp.copies
               /\ stack' = SetTop(Settle([Top EXCEPT !.k = Top.k + 1]))
               /\ last' = step
               /\ UNCHANGED <<disk, encodings, locale, status, error, scn>>

Next ==
    Copy \/ ParseLine \/ ReadFails \/ Return \/ IncludeTex \/ IncludeStatic

\* ------------------------------------------------------------ source trees
Cmd(word) == <<BS, word>>
Br(text) == <<"{">> \o text \o <<"}">>
Opt(n) == <<"[", n, "]">>

ImgCatPng == <<"imgs", "/", "cat", ".", "png">>
CatPng == <<"cat", ".", "png">>
CatJpg == <<"cat", ".", "jpg">>
ChapterTex == <<"chapter", ".", "tex">>
ChapterBakTex == <<"chapter", ".", "bak", ".", "tex">>
ChapterTxt == <<"chapter", ".", "txt">>
NotesTxt == <<"notes", ".", "txt">>
RefsTxt == <<"refs", ".", "txt">>
FooSty == <<"foo", ".", "sty">>

\* \newcommand{\fig}[1]{\includegraphics{imgs/#1.png}}
DefFig ==
    Cmd("newcommand") \o Br(Cmd("fig")) \o Opt("1")
    \o Br(Cmd("includegraphics") \o Br(<<"imgs", "/", "#", "1", ".", "png">>))
    \o <<NL>>
\* \renewcommand{\fig}[1]{\includegraphics{#1}}
RedefFig ==
    Cmd("renewcommand") \o Br(Cmd("fig")) \o Opt("1")
    \o Br(Cmd("includegraphics") \o Br(<<"#", "1">>)) \o <<NL>>
\* \fig{cat}
UseFig == Cmd("fig") \o Br(<<"cat">>) \o <<NL>>
\* \newcommand{\g}{\includegraphics{cat.png}}
DefG == Cmd("newcommand") \o Br(Cmd("g")) \o Br(Cmd("includegraphics") \o Br(CatPng))
        \o <<NL>>
\* \g
UseG == Cmd("g") \o <<NL>>
Include(word, path) == Cmd(word) \o Br(path) \o <<NL>>

\* the lines a root document of the walker's trees is written from
RootLines ==
    << DefFig, UseFig, RedefFig, UseG,
       Include("input", <<"chapter">>),
       Include("input", NotesTxt),
       Include("usepackage", <<"foo">>),
       Include("usepackage", FooSty),
       Include("includegraphics", <<"cat">>),
       Include("bibliography", RefsTxt) >>

\* the files beside the root document, and what they hold
FileLines(path) ==
    CASE path = ChapterTex -> <<UseFig, DefG>>
      [] path = NotesTxt -> <<Include("includegraphics", CatPng)>>
      [] path = FooSty -> <<UseFig, Include("includegraphics", CatPng)>>
      [] path = RefsTxt -> <<<<"x", NL>>>>
      [] OTHER -> <<>>

Trees ==
    { {ImgCatPng},
      {ImgCatPng, CatPng, ChapterTex, NotesTxt, RefsTxt, FooSty},
      {ImgCatPng, CatPng, CatJpg, ChapterTex, ChapterBakTex, NotesTxt, RefsTxt},
      {ImgCatPng, ChapterBakTex, ChapterTxt, FooSty} }

\* the most lines a root document of the walker's trees has
MaxRootLines == 2

\* the root document is lines, beside the files of tree
TreeDisk(tree, lines) ==
    [q \in tree \cup {tex_root_p} |->
        IF q = tex_root_p THEN lines ELSE FileLines(q)]

NoScenario ==
    [family |-> "tree", has_num |-> FALSE, groups |-> 0, body |-> <<>>,
     other |-> "none", pre |-> <<>>, args |-> <<>>, post |-> <<>>,
     line |-> <<>>]

\* Root documents that invoke one macro \f: its definition with or without
\* [n], n up to MaxArity, and one of these bodies; a second macro \h of arity
\* one, defined before \f, after \f or not at all; and a line that invokes \f
\* with up to MaxArgs arguments between the texts pre and post.
MaxArity == 2
MaxArgs == 3

BodyPool ==
    { <<"X", "#", "1", ".", "png">>, <<"#", "2", "#", "1">>, <<"X">>,
      <<BS, "h">> }
ArgPool == { <<"a">>, <<"a", "{", "b", "}", "c">> }
PrePool == { <<>>, <<"p", " ">> }
PostPool == { <<>>, <<BS, "f">>, <<" ", "z">> }

\* \newcommand{\f}[n]{body}, without [n] when has_num is not set
DefF(has_num, n, body) ==
    Cmd("newcommand") \o Br(Cmd("f"))
    \o (IF has_num THEN Opt(CHOOSE d \in Digits : DigitVal(d) = n) ELSE <<>>)
    \o Br(body) \o <<NL>>

\* \newcommand{\h}[1]{H#1}
DefH == Cmd("newcommand") \o Br(Cmd("h")) \o Opt("1") \o Br(<<"H", "#", "1">>)
        \o <<NL>>

\* {args[1]}{args[2]}...
RECURSIVE Braced(_)
Braced(args) ==
    IF args = <<>> THEN <<>> ELSE Br(Head(args)) \o Braced(Tail(args))

\* pre\f{args[1]}...post
Invocation(pre, args, post) ==
    pre \o Cmd("f") \o Braced(args) \o post \o <<NL>>

ExpandLines(has_num, n, body, other, line) ==
    CASE other = "before" -> <<DefH, DefF(has_num, n, body), line>>
      [] other = "after" -> <<DefF(has_num, n, body), DefH, line>>
      [] OTHER -> <<DefF(has_num, n, body), line>>

\* Copier.__init__: nothing is copied, no macro is known
InitCopier ==
    /\ out_tree = <<>>
    /\ out_dirs = {}
    /\ _copied_file_ps = {}
    /\ copies = <<>>
    /\ _regexes = <<>>
    /\ _command_definitions = <<>>
    /\ stack = <<>>
    /\ status = "idle"
    /\ error = "none"
    /\ last = NoStep

\* the run is started with the default of --encodings, where open() takes
\* utf-8 when no encoding is named
InitUtf8 ==
    /\ encodings = <<"utf8">>
    /\ locale = "utf8"

InitTree ==
    /\ InitUtf8
    /\ scn = NoScenario
    /\ \E n \in 1..MaxRootLines, tree \in Trees :
          \E ix \in [1..n -> 1..Len(RootLines)] :
              disk = TreeDisk(tree, [i \in 1..n |-> RootLines[ix[i]]])

InitExpand ==
    \E has_num \in BOOLEAN, n \in 0..MaxArity, body \in BodyPool,
       other \in {"none", "before", "after"}, pre \in PrePool,
       k \in 0..MaxArgs, post \in PostPool :
       \E args \in [1..k -> ArgPool] :
          /\ InitUtf8
          /\ has_num \/ n = 0
          /\ scn = [family |-> "expand", has_num |-> has_num, groups |-> n,
                    body |-> body, other |-> other, pre |-> pre, args |-> args,
                    post |-> post, line |-> Invocation(pre, args, post)]
          /\ disk = TreeDisk({}, ExpandLines(has_num, n, body, other,
                                             Invocation(pre, args, post)))

\* Trees whose documents may hold a byte that is no utf-8 text: the root
\* documents, the documents that may hold the byte, the values of --encodings
\* and the encodings open() may take by default.
EncodingRoots ==
    { <<Include("input", NotesTxt), Include("includegraphics", CatPng)>>,
      <<Include("input", <<"chapter">>), Include("includegraphics", CatPng)>>,
      <<Include("usepackage", <<"foo">>), Include("includegraphics", CatPng)>>,
      <<Include("input", <<"chapter">>), Include("input", NotesTxt)>> }
EncodingTree == {CatPng, ChapterTex, NotesTxt, FooSty}
EncodingLists ==
    { <<"utf8">>, <<"latin1">>, <<"utf8", "latin1">>, <<"latin1", "utf8">> }
Locales == {"utf8", "latin1"}

\* the lines of a document and, if with_byte, a last line that holds the byte
WithByte(lines, with_byte) ==
    IF with_byte THEN Append(lines, <<ByteE9, NL>>) ELSE lines

InitEncoding ==
    /\ scn = [NoScenario EXCEPT !.family = "encoding"]
    /\ encodings \in EncodingLists
    /\ locale \in Locales
    /\ \E root \in EncodingRoots :
       \E bad \in SUBSET {tex_root_p, ChapterTex, NotesTxt, FooSty} :
          disk = [q \in EncodingTree \cup {tex_root_p} |->
                     WithByte(IF q = tex_root_p THEN root ELSE FileLines(q),
                              q \in bad)]

\* Root documents for the comment stripper.  A document of one line: every
\* text of up to MaxLineLen of these characters, with or without the newline
\* (the last line of a file may lack it).
MaxLineLen == 4
StripAtoms == {"%", BS, " ", "x"}

\* A document of up to MaxStripLines of these lines: comment-only lines, a
\* blank and a whitespace-only line, text with two comments, text, a layout
\* line, and the end-of-document line on its own, commented out and followed
\* by a comment.  The last line of the document may lack its newline.
MaxStripLines == 3
StripLines ==
    << <<"%", "c", NL>>,
       <<" ", "%", "c", NL>>,
       <<NL>>,
       <<" ", NL>>,
       <<"x", " ", "%", " ", "c", " ", "%", " ", "d", NL>>,
       <<"x", NL>>,
       <<"x", " ", "%", NL>>,
       _END_DOCUMENT_MARKER \o <<NL>>,
       <<"%", " ">> \o _END_DOCUMENT_MARKER \o <<NL>>,
       _END_DOCUMENT_MARKER \o <<" ", "%", " ", "c", NL>> >>

InitStrip ==
    /\ InitUtf8
    /\ scn = [NoScenario EXCEPT !.family = "strip"]
    /\ \/ \E n \in 0..MaxLineLen :
          \E text \in [1..n -> StripAtoms], end \in {<<>>, <<NL>>} :
             /\ text \o end # <<>>
             /\ disk = TreeDisk({}, <<text \o end>>)
       \/ \E n \in 1..MaxStripLines, ended \in BOOLEAN :
          \E ix \in [1..n -> 1..Len(StripLines)] :
             /\ ended \/ StripLines[ix[n]] # <<NL>>
             /\ disk = TreeDisk({}, [i \in 1..n |->
                            IF i = n /\ ~ended
                            THEN Upto(StripLines[ix[i]], Len(StripLines[ix[i]]) - 1)
                            ELSE StripLines[ix[i]]])

\* Root documents for the bracket balancer: \newcommand{\m} with the first
\* line of a body ({a} z, {a {b}, {a {b, {a % }) and up to MaxBalanceLines of
\* the lines b} % }, % }, c} z, {x % and x; the last line of the document may
\* lack its newline.
MaxBalanceLines == 3
DefM == Cmd("newcommand") \o Br(Cmd("m"))
BalanceStarts ==
    { <<"{", "a", "}", " ", "z", NL>>,
      <<"{", "a", " ", "{", "b", "}", NL>>,
      <<"{", "a", " ", "{", "b", NL>>,
      <<"{", "a", " ", "%", " ", "}", NL>> }
BalanceLines ==
    << <<"b", "}", " ", "%", " ", "}", NL>>,
       <<"%", " ", "}", NL>>,
       <<"c", "}", " ", "z", NL>>,
       <<"{", "x", " ", "%", NL>>,
       <<"x", NL>> >>

\* lines without the newline of the last one, unless ended
Unended(lines, ended) ==
    [i \in 1..Len(lines) |->
        IF i = Len(lines) /\ ~ended THEN Upto(lines[i], Len(lines[i]) - 1)
        ELSE lines[i]]

\* \newcommand{\m}{a, then n lines x, then }z and x: a body whose closing
\* brace is n + 1 lines after its first line
LongBody(n) ==
    <<DefM \o <<"{", "a", NL>>>> \o [i \in 1..n |-> <<"x", NL>>]
    \o << <<"}", "z", NL>>, <<"x", NL>> >>

InitBalance ==
    /\ InitUtf8
    /\ scn = [NoScenario EXCEPT !.family = "balance"]
    /\ \/ \E start \in BalanceStarts, n \in 0..MaxBalanceLines,
             ended \in BOOLEAN :
          \E ix \in [1..n -> 1..Len(BalanceLines)] :
             disk = TreeDisk({}, Unended(<<DefM \o start>>
                                        \o [i \in 1..n |-> BalanceLines[ix[i]]],
                                        ended))
       \/ \E n \in {MaxLookahead - 1, MaxLookahead} :
             disk = TreeDisk({}, LongBody(n))

\* Trees whose documents include each other: the root document includes
\* chapter.tex and chapter.tex the root document, or the root document
\* includes itself.
CycleDisks ==
    { [q \in {tex_root_p, ChapterTex} |->
          IF q = tex_root_p THEN <<Include("input", <<"chapter">>)>>
          ELSE <<Include("input", <<"main">>)>>],
      [q \in {tex_root_p} |-> <<Include("input", <<"main">>)>>] }

InitCycle ==
    /\ InitUtf8
    /\ scn = [NoScenario EXCEPT !.family = "cycle"]
    /\ disk \in CycleDisks

\* Root documents of one line that holds \newcommand{\m}{a} and, before it
\* and after it, nothing or an include directive; the targets of the
\* directives are all present or all missing.
SharedDef == Cmd("newcommand") \o Br(Cmd("m")) \o Br(<<"a">>)
SharedPool ==
    { <<>>, Cmd("input") \o Br(RefsTxt), Cmd("includegraphics") \o Br(CatPng) }
SharedTrees == { {RefsTxt, CatPng}, {} }

InitShared ==
    \E pre \in SharedPool, post \in SharedPool, tree \in SharedTrees :
       /\ InitUtf8
       /\ scn = [NoScenario EXCEPT
                    !.family = "shared", !.pre = pre, !.post = post,
                    !.line = pre \o SharedDef \o post \o <<NL>>]
       /\ disk = TreeDisk(tree, <<pre \o SharedDef \o post \o <<NL>>>>)

\* Root documents of one line that holds a comment with an include directive
\* in it: before the marker nothing (a comment-only line), text, text with an
\* escaped marker or an include directive; after the comment nothing or a
\* trailing marker (a layout line).  The targets are all present or all
\* missing.
CommentedLive ==
    { <<>>, <<"x", " ">>, <<"x", " ", BS, "%", " ">>,
      Cmd("includegraphics") \o Br(CatPng) \o <<" ">> }
CommentedIncludes ==
    { <<" ">> \o Cmd("includegraphics") \o Br(CatPng),
      <<" ">> \o Cmd("input") \o Br(RefsTxt) }
CommentedTails == { <<>>, <<" ", "%">> }

InitCommented ==
    \E live \in CommentedLive, inc \in CommentedIncludes,
       tail \in CommentedTails, tree \in SharedTrees :
       /\ InitUtf8
       /\ scn = [NoScenario EXCEPT
                    !.family = "commented", !.pre = live,
                    !.post = inc \o tail,
                    !.line = live \o <<"%">> \o inc \o tail \o <<NL>>]
       /\ disk = TreeDisk(tree, <<live \o <<"%">> \o inc \o tail \o <<NL>>>>)

Init ==
    InitCopier
    /\ (InitTree \/ InitExpand \/ InitEncoding \/ InitStrip \/ InitBalance
        \/ InitCycle \/ InitShared \/ InitCommented)

Spec == Init /\ [][Next]_vars

\* ------------------------------------------------------------- properties
FigName == Cmd("fig")

\* C1: an include that a macro expansion introduces is resolved like a
\* literal one.  In a run on the root document
\*     \newcommand{\fig}[1]{\includegraphics{imgs/#1.png}}
\*     \fig{cat}
\* with imgs/cat.png on disk: the table stores \fig with arity 1, the
\* invocation line expands to \includegraphics{imgs/cat.png}, the static
\* resolver yields the one static file imgs/cat.png, and the finished run has
\* copied the root document and imgs/cat.png, and nothing else.
C1_MacroIncludeResolved ==
    (disk[tex_root_p] = <<DefFig, UseFig>> /\ ImgCatPng \in DOMAIN disk) =>
        /\ status # "failed"
        /\ (last.op = "line" /\ last.raw = DefFig) =>
               /\ DOMAIN _command_definitions = {FigName}
               /\ _command_definitions[FigName].num_args = 1
               /\ _command_definitions[FigName].definition =
                      Cmd("includegraphics")
                      \o Br(<<"imgs", "/", "#", "1", ".", "png">>)
        /\ (last.op = "line" /\ last.raw = UseFig) =>
               /\ last.expanded = Cmd("includegraphics") \o Br(ImgCatPng) \o <<NL>>
               /\ Top.static = <<[command |-> 1, tex_path |-> ImgCatPng]>>
               /\ Top.tex = <<>>
        /\ last.op = "static" => last.path = ImgCatPng
        /\ status = "done" =>
               /\ copies = <<tex_root_p, ImgCatPng>>
               /\ DOMAIN out_tree = {tex_root_p, ImgCatPng}
               /\ out_tree[ImgCatPng] = disk[ImgCatPng]

\* the run of C1 has ended with imgs/cat.png in the output tree
C1_RunFinished ==
    /\ disk[tex_root_p] = <<DefFig, UseFig>>
    /\ status = "done"
    /\ ImgCatPng \in DOMAIN out_tree

\* the step that expanded the invoking line of a root document written from
\* its parts
InvocationExpanded ==
    scn.family = "expand" /\ last.op = "line" /\ last.raw = scn.line

FName == Cmd("f")

\* C2: an invocation that supplies exactly n arguments to a macro of arity
\* n >= 1 is replaced by the stored body in which every #k is the k-th
\* argument as written between its braces, also when the argument holds
\* braces itself.  (Stated for a table that holds no other macro and for text
\* around the invocation that invokes nothing.)
C2_ArgumentsVerbatim ==
    ( /\ InvocationExpanded
      /\ scn.other = "none"
      /\ scn.has_num /\ scn.groups >= 1
      /\ Len(scn.args) = scn.groups
      /\ scn.post # FName ) =>
        /\ status # "failed"
        /\ last.expanded =
               scn.pre \o _replace_all(scn.body, scn.args) \o scn.post \o <<NL>>

\* C3: expanding a line that invokes a macro of arity n with a number of
\* brace-delimited arguments other than n raises ParseException.
C3_MismatchRaises ==
    ( /\ InvocationExpanded
      /\ scn.has_num
      /\ Len(scn.args) # scn.groups ) =>
        status = "failed" /\ error = "ParseException"

\* C4: when the expansion of a line ends, no matcher of the table matches the
\* text it returns.
C4_NothingLeftToExpand ==
    (last.op = "line" /\ status # "failed") =>
        \A k \in 1..Len(_regexes) : SearchFrom(_regexes[k], last.expanded, 1) = 0

\* every name of the table has one definition and one matcher, of its arity
OneDefinitionPerName ==
    /\ DOMAIN _command_definitions = RegexNames(_regexes)
    /\ \A i, j \in 1..Len(_regexes) :
          _regexes[i].name = _regexes[j].name => i = j
    /\ \A k \in 1..Len(_regexes) :
          _regexes[k].groups = _command_definitions[_regexes[k].name].num_args

\* a step that reads a line defining a name the table holds: \newcommand
\* raises ParseException and leaves the table as it was; \renewcommand leaves
\* the other names as they were and maps the name to the new body and arity,
\* with one new matcher in place of the old one
RedefinitionStep ==
    ( /\ last'.op = "line"
      /\ last'.defines
      /\ last'.command_name \in DOMAIN _command_definitions ) =>
        IF ~last'.is_renew
        THEN /\ status' = "failed"
             /\ error' = "ParseException"
             /\ _regexes' = _regexes
             /\ _command_definitions' = _command_definitions
        ELSE /\ DOMAIN _command_definitions' = DOMAIN _command_definitions
             /\ _command_definitions'[last'.command_name] =
                    [definition |-> last'.body, num_args |-> last'.num_args]
             /\ \A n \in DOMAIN _command_definitions \ {last'.command_name} :
                    _command_definitions'[n] = _command_definitions[n]
             /\ Len(_regexes') = Len(_regexes)
             /\ _regexes'[Len(_regexes')].name = last'.command_name
             /\ _regexes'[Len(_regexes')].groups = last'.num_args
             /\ SelectSeq(_regexes', LAMBDA r : r.name # last'.command_name)
                    = SelectSeq(_regexes, LAMBDA r : r.name # last'.command_name)

\* C5: defining a name that already has a definition is an error that leaves
\* the table unchanged for \newcommand; for \renewcommand the old definition
\* and its matcher are discarded and the name maps to exactly the new body
\* and arity.  At every point of the run every name has exactly one
\* definition and exactly one matcher.
C5_Redefinition == []OneDefinitionPerName /\ [][RedefinitionStep]_vars

\* a \renewcommand has replaced the definition of a name the table held
C5_Redefined ==
    /\ last.op = "line" /\ last.defines /\ last.known /\ last.is_renew
    /\ status = "running"
    /\ _command_definitions[FigName].definition
           = Cmd("includegraphics") \o Br(<<"#", "1">>)

\* what _resolve_definitions makes of the line of the last step with the
\* table as it is
ExpandedWithTable ==
    _resolve_definitions(_regexes, _command_definitions, last.rest).text

ScopeOfLine ==
    (last.op = "line" /\ status # "failed") =>
        IF is_sty_file(last.file)
        THEN last.expanded = last.rest /\ ~last.defines
        ELSE /\ last.expanded = ExpandedWithTable
             /\ last.defines =>
                    /\ last.command_name \in DOMAIN _command_definitions
                    /\ _command_definitions[last.command_name] =
                           [definition |-> last.body, num_args |-> last.num_args]

\* a registered macro stays registered with its body and arity, unless the
\* step reads a \renewcommand of its name
DefinitionsPersist ==
    \A n \in DOMAIN _command_definitions :
        \/ /\ n \in DOMAIN _command_definitions'
           /\ _command_definitions'[n] = _command_definitions[n]
           /\ \E k \in 1..Len(_regexes') : _regexes'[k].name = n
        \/ /\ last'.op = "line" /\ last'.defines /\ last'.is_renew
           /\ last'.command_name = n

AmbiguousInclude(op) ==
    /\ last.op = op
    /\ SplitExt(last.tex_path) = <<>>
    /\ Cardinality(Glob(DOMAIN disk, last.tex_path)) > 1

\* the step made no copy
NothingCopied == Len(copies) = last.ncopies

WithExtension(tex_path, command) ==
    {tex_path \o e : e \in _TEX_INCLUDES[command].possible_extensions}
        \cap DOMAIN disk

C8_WrongExtensionRejected ==
    ( /\ last.op = "tex"
      /\ SplitExt(last.tex_path) # <<>>
      /\ SplitExt(last.tex_path)
             \notin _TEX_INCLUDES[last.command].possible_extensions ) =>
        /\ status = "failed" /\ error = "ParseException"
        /\ NothingCopied
        /\ Len(stack) = last.depth

\* the file a document include names, with the extension of \usepackage when
\* none is written
PackageTarget ==
    IF SplitExt(last.tex_path) # <<>> THEN last.tex_path
    ELSE last.tex_path \o <<".", "sty">>

\* C9: an include of a command that does not require its file (\usepackage)
\* whose file is absent from the tree yields nothing: no error, no copy, no
\* call for the file; with or without the extension written.
C9_AbsentPackageYieldsNothing ==
    ( /\ last.op = "tex"
      /\ ~_TEX_INCLUDES[last.command].must_exist
      /\ PackageTarget \notin DOMAIN disk ) =>
        /\ status # "failed"
        /\ NothingCopied
        /\ Len(stack) = last.depth

\* C10: no file is copied twice to the same output path during a run.
C10_NoFileCopiedTwice ==
    \A i, j \in 1..Len(copies) : copies[i] = copies[j] => i = j

\* C11: the candidate encodings are tried in their order, and a document
\* whose read decodes with no candidate ends the run with an error.  After a
\* read of a document failed to decode with the first candidate: if no
\* candidate decodes the document the run has failed, and if a later one does
\* the run goes on.
C11_ExhaustionIsFatal ==
    last.op = "read" =>
        IF \A i \in 1..Len(encodings) : ~Decodes(encodings[i], disk[last.file])
        THEN status = "failed"
        ELSE status # "failed"

\* the exception of the last step, unless it is a decoding failure (C11), has
\* ended the run as it was raised, at whatever depth of the recursion, and
\* every file copied so far is in the output tree
FailureEndsRun ==
    /\ last.raised \notin {"none", "UnicodeDecodeError"} =>
           status = "failed" /\ error = last.raised
    /\ status = "failed" => error # "none"
    /\ \A i \in 1..Len(copies) : copies[i] \in DOMAIN out_tree

\* no step is taken once the run has failed, and a step removes no copy
NothingAfterFailure ==
    /\ status # "failed"
    /\ Len(copies') >= Len(copies)
    /\ SubSeq(copies', 1, Len(copies)) = copies
    /\ DOMAIN out_tree \subseteq DOMAIN out_tree'

\* C12: a terminal failure during the walk (an unresolved required include, a
\* malformed or repeated definition, a missing file) aborts the run: the
\* exception reaches the top-level call unchanged from every depth of the
\* recursion, no file is copied after it, and the files copied before it stay
\* in the output tree.
C12_FailureAborts == []FailureEndsRun /\ [][NothingAfterFailure]_vars

\* a ParseException raised in a sub-document ended the run after the root
\* document and the sub-document were copied
C12_FailedInSubDocument ==
    /\ status = "failed" /\ error = "ParseException"
    /\ last.raised = "ParseException"
    /\ last.depth >= 2
    /\ Len(copies) >= 2
    /\ \A i \in 1..Len(copies) : copies[i] \in DOMAIN out_tree

\* the keywords of the document includes whose recurse flag is set
WalkedKeywords == {"input", "subfile", "usepackage"}

\* the last step copied the file it resolved
CopiedResolved == copies = Append(SubSeq(copies, 1, last.ncopies), last.path)

\* C13: every resolved document include is copied and is then walked if and
\* only if the recurse flag of its command is set (\input, \subfile and
\* \usepackage are walked, \bibliographystyle and \bibliography only copied);
\* a file found through a static include is copied and never walked.  (Stated
\* for the steps that do not end the run with an error.)
C13_WalkedIffFlagged ==
    /\ (last.op = "tex" /\ last.path # None /\ status # "failed") =>
           /\ CopiedResolved
           /\ IF _TEX_INCLUDES[last.command].keyword \in WalkedKeywords
              THEN /\ Len(stack) = last.depth + 1
                   /\ Top = ReadFrame(last.path, 1)
              ELSE Len(stack) = last.depth
    /\ (last.op = "static" /\ status # "failed") =>
           CopiedResolved /\ Len(stack) = last.depth

\* a line that holds the marker alone, and a line that holds nothing
BareMarker == <<"%", NL>>
BlankLine == <<NL>>

\* the first character of the line that is no whitespace is the marker
CommentOnly(l) == LStrip(l) # <<>> /\ LStrip(l)[1] = "%"

\* one of the lines holds the end-of-document marker
HoldsEndMarker(lines) ==
    \E i \in 1..Len(lines) : Contains(lines[i], _END_DOCUMENT_MARKER)

\* the root document was copied and strip_comments has rewritten the copy
RootStripped ==
    /\ status # "idle"
    /\ tex_root_p \in DOMAIN out_tree
    /\ TmpPath(tex_root_p) \notin DOMAIN out_tree

\* the lines emitted so far and what a comment-only line adds to them
EmittedWith(before) ==
    IF before # <<>> /\ before[Len(before)] \in {BareMarker, BlankLine}
    THEN before
    ELSE Append(before, BareMarker)

Unescaped(l) == {i \in 1..Len(l) : l[i] = "%" /\ (i = 1 \/ l[i - 1] # BS)}

\* the last character of l that is no whitespace is the marker
EndsWithMarker(l) == RStrip(l) # <<>> /\ RStrip(l)[Len(RStrip(l))] = "%"

\* C15: for a line that is not comment-only and whose text without trailing
\* whitespace does not end with the marker, strip_comments_from_line returns
\* the text before the leftmost marker that no backslash precedes, without
\* its trailing whitespace and followed by one newline; a marker after a
\* backslash starts no comment; a line without such a marker is returned as
\* it is.
C15_CutAtLeftmostUnescaped ==
    (last.op = "line" /\ ~CommentOnly(last.raw) /\ ~EndsWithMarker(last.raw)) =>
        IF Unescaped(last.raw) # {}
        THEN last.stripped =
                 RStrip(Upto(last.raw, Min(Unescaped(last.raw)) - 1)) \o <<NL>>
        ELSE last.stripped = last.raw

\* the line \%%x was cut after its escaped marker
C15_EscapedMarkerKept ==
    /\ last.op = "line"
    /\ last.raw = <<BS, "%", "%", "x", NL>>
    /\ last.stripped = <<BS, "%", NL>>

\* C16: a line that is not comment-only and whose last character before its
\* trailing whitespace is the marker is returned by strip_comments_from_line
\* as it is, character for character.
C16_LayoutLineKept ==
    (last.op = "line" /\ ~CommentOnly(last.raw) /\ EndsWithMarker(last.raw)) =>
        last.stripped = last.raw

\* the line x%x% was returned with the comment before its trailing marker
C16_TrailingMarkerKept ==
    /\ last.op = "line"
    /\ last.raw = <<"x", "%", "x", "%", NL>>
    /\ last.stripped = <<"x", "%", "x", "%", NL>>

\* C17: comment stripping is idempotent on documents: stripping a stripped
\* document again yields the same lines, the marker lines and the blank line
\* after the end-of-document line included.
C17_StripIdempotent ==
    \A p \in DOMAIN out_tree :
        (EndsWith(p, <<".", "tex">>) /\ TmpPath(p) \notin DOMAIN out_tree) =>
            /\ out_tree[p] = strip_comments(disk[p])
            /\ strip_comments(out_tree[p]) = out_tree[p]

\* the index of the first line that holds the end-of-document marker, 0 when
\* no line does
EndLine(lines) ==
    LET hits == {k \in 1..Len(lines) :
                    Contains(lines[k], _END_DOCUMENT_MARKER)}
    IN  IF hits = {} THEN 0 ELSE Min(hits)

\* the copy of a document whose m-th line is the first with the marker ends
\* with that line, as the stripper returns it, and one blank line; the copier
\* stops at that line and at no line before it
CopyEndsAt(lines, out, m) ==
    /\ Len(out) >= 2
    /\ out[Len(out)] = BlankLine
    /\ out[Len(out) - 1] = strip_comments_from_line(lines[m], None)
    /\ Contains(out[Len(out) - 1], _END_DOCUMENT_MARKER)
    /\ out = strip_comments(Upto(lines, m))
    /\ ~HoldsEndMarker(strip_comments(Upto(lines, m - 1)))

\* C18: when a line of a document holds the end-of-document marker, the copy
\* of the document ends with that line followed by one blank line, no later
\* line is emitted or read by the walker, and the walker and the copier stop
\* at the same line.
C18_StopAtEndMarker ==
    (RootStripped /\ EndLine(disk[tex_root_p]) # 0) =>
        /\ CopyEndsAt(disk[tex_root_p], out_tree[tex_root_p],
                      EndLine(disk[tex_root_p]))
        /\ (last.op = "line" /\ last.file = tex_root_p) =>
               last.pos < EndLine(disk[tex_root_p])

\* the lines the balancer may read for a definition found at line p0 of file:
\* first, the line from its opening brace on, and the lines after it within
\* the lookahead, each as the comment stripper returns it
Supplied(file, p0, first) ==
    <<first>> \o [k \in 1..Min({MaxLookahead, Len(file) - p0}) |->
                     strip_comments_from_line(file[p0 + k], None)]

\* the text of lines, one after the other
RECURSIVE Flat(_)
Flat(lines) == IF lines = <<>> THEN <<>> ELSE Head(lines) \o Flat(Tail(lines))

\* the index in text of the brace that returns the depth to zero, 0 when none
CloseIndex(text) ==
    LET hits == {i \in 1..Len(text) : DepthAfter(text, 0, i) = 0}
    IN  IF hits = {} THEN 0 ELSE Min(hits)

\* the index of the line in which the c-th character of the text of lines is
ClosingLine(lines, c) ==
    Min({n \in 1..Len(lines) : Len(Flat(Upto(lines, n))) >= c})

\* body and rest are the text of lines between its first brace and the brace
\* at c, and the text after that brace on its line; `next` is the index of the
\* line after that one
SplitAt(lines, text, c, p0, body, rest, next) ==
    /\ body = SubSeq(text, 2, c - 1)
    /\ rest = SubSeq(text, c + 1, Len(Flat(Upto(lines, ClosingLine(lines, c)))))
    /\ next = p0 + ClosingLine(lines, c)

\* the definition read by the last step, as the text the balancer may read
DefinitionLines ==
    Supplied(disk[last.file], last.pos, From(last.stripped, last.brace))

\* C19: given a first line that starts with an opening brace and the lines
\* that follow it, the balancer strips every line it reads of comments and
\* returns body and rest: body is the text strictly between that brace and
\* the brace that returns the depth to zero, over several lines if need be,
\* rest is the text after that brace on its line, and no line after that one
\* is taken from the supplier.
C19_BodyAndRest ==
    ( /\ last.op = "line" /\ last.defines
      /\ last.raised # "ParseException"
      /\ CloseIndex(Flat(DefinitionLines)) # 0 ) =>
        /\ last.raised = "none"
        /\ SplitAt(DefinitionLines, Flat(DefinitionLines),
                   CloseIndex(Flat(DefinitionLines)), last.pos,
                   last.body, last.rest, Top.pos)

\* the last step read a definition whose brace depth does not return to zero
\* in the lines the balancer may read: the step raised the balancer's error
\* (the assertion on a first line without newline comes before it), no body
\* was returned and the run has ended
UnclosedFails ==
    ( /\ last.op = "line" /\ last.defines
      /\ CloseIndex(Flat(DefinitionLines)) = 0 ) =>
        /\ last.raised = IF last.stripped[Len(last.stripped)] = NL
                         THEN "ValueError" ELSE "AssertionError"
        /\ last.body = <<>>
        /\ status = "failed" /\ error = last.raised

\* a step in which the balancer fails leaves the macro table as it was
FailedDefinitionKeepsTable ==
    (last'.op = "line" /\ last'.raised \in {"ValueError", "AssertionError"}) =>
        /\ _regexes' = _regexes
        /\ _command_definitions' = _command_definitions

\* C20: if the brace depth does not return to zero within the lookahead, or
\* the lines run out first, the balancer fails with its error instead of
\* reading on; it returns no partial body, and the macro table is as it was
\* before the failed definition.
C20_UnclosedDefinitionFails ==
    []UnclosedFails /\ [][FailedDefinitionKeepsTable]_vars

\* the definition whose closing brace is one line beyond the lookahead failed
C20_LookaheadExceeded ==
    /\ disk[tex_root_p] = LongBody(MaxLookahead)
    /\ last.op = "line" /\ last.raised = "ValueError"
    /\ status = "failed" /\ error = "ValueError"
    /\ _regexes = <<>>
    /\ _command_definitions = <<>>

\* C21: the walker detects no cycle.  When the root document includes a
\* document that includes the root document (or the root document includes
\* itself), the run never ends successfully: every call of _parse_file copies
\* its document again and calls _parse_file for the document it includes,
\* and the run ends only when the nesting reaches the limit of the
\* interpreter, with its RecursionError.
C21_CycleNeverSucceeds ==
    disk \in CycleDisks =>
        /\ status # "done"
        /\ Len(copies) >= Len(stack)
        /\ \A i \in 1..Len(stack) : stack[i].file = copies[i]
        /\ \A i \in 1..Len(copies) :
              copies[i] = IF ChapterTex \in DOMAIN disk /\ i % 2 = 0
                          THEN ChapterTex ELSE tex_root_p
        /\ status = "failed" =>
               error = "RecursionError" /\ Len(copies) = MaxStack + 1

\* the root document and chapter.tex, which include each other, were each
\* copied again, and the nesting has reached the limit
C21_CopiedAgain ==
    /\ disk \in CycleDisks
    /\ ChapterTex \in DOMAIN disk
    /\ Len(copies) >= 4
    /\ copies[3] = tex_root_p /\ copies[4] = ChapterTex
    /\ status = "failed" /\ error = "RecursionError"

\* the paths the include directives of text name
IncludedBy(text) ==
    {_match_all(text, _TEX_INCLUDES)[j].tex_path :
        j \in 1..Len(_match_all(text, _TEX_INCLUDES))}
    \cup {_match_all(text, _STATIC_INCLUDES)[j].tex_path :
             j \in 1..Len(_match_all(text, _STATIC_INCLUDES))}

\* C22: no include directive is skipped on a definition line.  When the run
\* over a root document whose line holds include directives before and after
\* a \newcommand directive has ended without error, the target of every one
\* of these directives has been copied.
C22_NoIncludeSkippedOnDefinitionLine ==
    (scn.family = "shared" /\ status = "done") =>
        \A p \in IncludedBy(scn.pre) \cup IncludedBy(scn.post) :
            p \in _copied_file_ps

\* the index of the first comment marker of line l that no backslash
\* precedes, or 0
FirstMarker(l) ==
    IF \E i \in 1..Len(l) : l[i] = "%" /\ (i = 1 \/ l[i - 1] # BS)
    THEN Min({i \in 1..Len(l) : l[i] = "%" /\ (i = 1 \/ l[i - 1] # BS)})
    ELSE 0

\* the text of line l before its first unescaped marker, and the text after it
LiveText(l) == IF FirstMarker(l) = 0 THEN l ELSE Upto(l, FirstMarker(l) - 1)
CommentText(l) == IF FirstMarker(l) = 0 THEN <<>> ELSE From(l, FirstMarker(l) + 1)

\* C23: commented-out includes never add a file to the output.  For a root
\* document whose line holds an include directive only after an unescaped
\* comment marker, the target of that directive is never copied, and the run
\* fails only when a target named before the marker is missing; this holds
\* on lines that end with a trailing marker too.
C23_CommentedIncludeIgnored ==
    scn.family = "commented" =>
        /\ \A p \in IncludedBy(CommentText(scn.line))
                    \ IncludedBy(LiveText(scn.line)) :
               p \notin _copied_file_ps
        /\ status = "failed" =>
               \E p \in IncludedBy(LiveText(scn.line)) : p \notin DOMAIN disk

====
